---- MODULE Spec2Model ----
(***************************************************************************)
(* A model of src/main.py: the AdaptiveRateLimiter, its request() retry    *)
(* loop, process_row and the batch driver process_csv with its SIGINT      *)
(* handler.                                                                *)
(*                                                                         *)
(* Delays are Python floats in seconds.  The model keeps them as integers  *)
(* in microseconds (1.0 s = 1000000) and rounds each product down to a     *)
(* whole microsecond; the clamp of _apply_ema is applied to that value as  *)
(* the code applies it to the float.                                       *)
(***************************************************************************)
EXTENDS Integers, Sequences, FiniteSets, TLC

\* ------------------------------------------------------------------ bounds
\* Rows of the table of a single batch run.
NumRows == 3
\* Rows of the table when the batch is run again on the file it wrote.
ResumeRows == 2
\* Batch runs (processes) in a row over the same file.
MaxRuns == 2
\* 429 answers the lookup service gives during one batch run.
MaxRateLimited == 6
\* Calls made on a limiter that is driven directly (not through a batch).
MaxUpdates == 12

\* ------------------------------------------------- program constants
\* AdaptiveRateLimiter.__init__ defaults, in microseconds.
initial_delay == 1000000
initial_alpha == 2
max_delay == 30000000
min_delay == 100000
\* request(..., max_attempts=5)
max_attempts == 5

STATE_HOUSE_ID == "sldl"
STATE_SENATE_ID == "sldu"
US_HOUSE_ID == "cd:"
Markers == {STATE_HOUSE_ID, STATE_SENATE_ID, US_HOUSE_ID}

\* The six output columns; the sentinel of process_csv is one of them.
state_house_rep_column == "State House Rep."
DistrictColumn(m) ==
    CASE m = STATE_HOUSE_ID -> "State House District"
      [] m = STATE_SENATE_ID -> "State Senate District"
      [] OTHER -> "US House District"
RepColumn(m) ==
    CASE m = STATE_HOUSE_ID -> "State House Rep."
      [] m = STATE_SENATE_ID -> "State Senate Rep."
      [] OTHER -> "US House Rep."
Columns == {DistrictColumn(m) : m \in Markers} \cup {RepColumn(m) : m \in Markers}

\* ------------------------------------------------------------ cell values
\* A cell of the csv file is text; the empty text is what to_csv writes for
\* a missing value and what read_csv reads back as NaN.
EmptyText == ""
NaN == "NaN"
OldText == "old"
\* The text a lookup of batch run r derives for a cell.
Derived(r) == "run" \o ToString(r)

Max(a, b) == IF a >= b THEN a ELSE b
Min(a, b) == IF a <= b THEN a ELSE b

\* How many times e occurs in the sequence s.
Count(s, e) == Cardinality({i \in 1..Len(s) : s[i] = e})

VARIABLES
    file,          \* the csv file: a sequence of rows, Columns -> text
    df,            \* the DataFrame of the running batch
    pending,       \* df[mask].index: the row numbers pending at batch start
    pos,           \* how many of them the for loop has started
    pc,            \* where the batch is
    should_stop,   \* the module's stop flag
    delay,         \* AdaptiveRateLimiter.delay (microseconds)
    update_count,  \* AdaptiveRateLimiter.update_count
    attempt,       \* the loop variable of request()
    outcome,       \* what the last invocation of make_request produced
    result,        \* what request() returned to get_legislative_districts
    districts,     \* the RowItem of the row: the markers that are not None
    error,         \* the exception in flight ("none": none)
    propagated,    \* the exception that left process_csv ("none": none)
    run,           \* the number of this batch run (process)
    events,        \* history: the calls, updates and sleeps of the current row
    persists,      \* history: to_csv calls of this run
    lookups,       \* history: invocations of make_request per row, this run
    done_rows,     \* history: rows whose process_row returned, this run
    pre,           \* history: the limiter just before the last invocation
    stop_at,       \* history: where the batch was when the flag was first set
    found,         \* history: per row, the markers its lookup of this run found
    sleeps,        \* history: the delays slept since the row began, in order
    table_read,    \* history: the DataFrame as read_csv returned it, this run
    rate_limited,  \* history: 429 answers of the service, this run
    earlier        \* history: how the earlier runs ended, the rows they completed

vars == <<file, df, pending, pos, pc, should_stop, delay, update_count,
          attempt, outcome, result, districts, error, propagated, run, events,
          persists, lookups, done_rows, pre, stop_at, found, sleeps,
          table_read, rate_limited, earlier>>

\* ------------------------------------------------------ AdaptiveRateLimiter
\* _compute_alpha: initial_alpha / (1 + update_count), kept as a fraction.
compute_alpha(uc) == [num |-> initial_alpha, den |-> 1 + uc]

\* _apply_ema with the outer max/min left out: the blend is not clamped.
apply_ema_unclamped(d, uc, new_target) ==
    LET uc1 == uc + 1
        alpha == compute_alpha(uc1)
        blend == (alpha.num * new_target + (alpha.den - alpha.num) * d) \div alpha.den
    IN  [delay |-> blend, update_count |-> uc1]

\* _apply_ema with alpha computed before the count is incremented.
apply_ema_count_after(d, uc, new_target) ==
    LET alpha == compute_alpha(uc)
        blend == (alpha.num * new_target + (alpha.den - alpha.num) * d) \div alpha.den
    IN  [delay |-> Max(min_delay, Min(max_delay, blend)), update_count |-> uc + 1]

\* _apply_ema: the count is incremented first, alpha is computed from the
\* incremented count, and the blend is clamped to [min_delay, max_delay].
apply_ema(d, uc, new_target) ==
    LET uc1 == uc + 1
        alpha == compute_alpha(uc1)
        blend == (alpha.num * new_target + (alpha.den - alpha.num) * d) \div alpha.den
    IN  [delay |-> Max(min_delay, Min(max_delay, blend)), update_count |-> uc1]

\* on_success with its target above the delay (delay * 1.1).
on_success_slower(d, uc) == apply_ema(d, uc, (d * 11) \div 10)

\* on_success: target = delay * 0.9.
on_success(d, uc) == apply_ema(d, uc, (d * 9) \div 10)

\* on_rate_limit with the target of on_success (delay * 0.9).
on_rate_limit_faster(d, uc) == apply_ema(d, uc, (d * 9) \div 10)

\* on_rate_limit: target = delay * 2.0 (its sleep is the caller's next step).
on_rate_limit(d, uc) == apply_ema(d, uc, d * 2)

\* ------------------------------------------------------------- the table
\* pd.read_csv: an empty cell is read as NaN.
read_csv(f) ==
    [i \in 1..Len(f) |->
        [c \in Columns |-> IF f[i][c] = EmptyText THEN NaN ELSE f[i][c]]]

\* df.to_csv(file_path, index=False): every row is written, NaN as empty text.
to_csv(d) ==
    [i \in 1..Len(d) |->
        [c \in Columns |-> IF d[i][c] = NaN THEN EmptyText ELSE d[i][c]]]

isna(v) == v = NaN

\* The index of the whole table: the mask is not applied.
MaskIndex_unmasked(d) == [i \in 1..Len(d) |-> i]

\* df[mask].index: the rows whose sentinel is NaN, in table order.
MaskIndex(d) ==
    SelectSeq([i \in 1..Len(d) |-> i],
              LAMBDA i : isna(d[i][state_house_rep_column]))

BlankRow == [c \in Columns |-> EmptyText]
DoneRow == [c \in Columns |-> OldText]
Tables(n) == [1..n -> {BlankRow, DoneRow}]

\* ------------------------------------------------- what make_request does
\* A response is the set of markers found among its division ids, and
\* whether extract_district_and_rep can read its matching divisions.
NoOutcome == [kind |-> "none", divisions |-> {}, wellformed |-> TRUE]
Response(ds, wf) == [kind |-> "ok", divisions |-> ds, wellformed |-> wf]
Failure(k) == [kind |-> k, divisions |-> {}, wellformed |-> TRUE]
\* Every set of jurisdictions a response may hold.
AllResponses == {Response(ds, TRUE) : ds \in SUBSET Markers}
\* The responses of the batch specifications: no division, the national
\* house only, all three, and all three with a division that cannot be read.
Responses ==
    {Response({}, TRUE), Response({US_HOUSE_ID}, TRUE),
     Response(Markers, TRUE), Response(Markers, FALSE)}
\* TOO_MANY_REQUESTS_STATUS_CODE, another HTTP status, no HTTP answer at all.
Failures == {Failure("429"), Failure("http_error"), Failure("connection_error")}
Service == Responses \cup Failures

NoStop == [set |-> FALSE, started |-> 0, in_row |-> FALSE]
NoEarlier == [ended |-> "none", done |-> {}]
RequestPcs == {"try", "classify", "backoff", "final"}
RowPcs == RequestPcs \cup {"parse", "write_sh", "write_ss", "write_us"}
\* The row number the for loop is at.
cur == pending[pos]

tableVars == <<file, df>>
loopVars == <<pending, pos>>
limiterVars == <<delay, update_count>>
requestVars == <<attempt, outcome, result>>
errorVars == <<error, propagated>>
runVars == <<run, earlier, table_read, rate_limited>>

\* ------------------------------------------------------------------ Init
\* A process that is about to call process_csv on one of `tables`.
InitWith(tables, at) ==
    /\ file \in tables
    /\ df = <<>>
    /\ pending = <<>>
    /\ pos = 0
    /\ pc = at
    /\ should_stop = FALSE
    /\ delay = initial_delay
    /\ update_count = 0
    /\ attempt = 0
    /\ outcome = NoOutcome
    /\ result = NoOutcome
    /\ districts = {}
    /\ error = "none"
    /\ propagated = "none"
    /\ run = 1
    /\ events = <<>>
    /\ persists = 0
    /\ lookups = [i \in 1..Len(file) |-> 0]
    /\ done_rows = {}
    /\ pre = [delay |-> initial_delay, update_count |-> 0]
    /\ stop_at = NoStop
    /\ found = [i \in 1..Len(file) |-> {}]
    /\ sleeps = <<>>
    /\ table_read = <<>>
    /\ rate_limited = 0
    /\ earlier = NoEarlier

Init == InitWith(Tables(NumRows), "start")

\* --------------------------------------------------------------- actions
\* handle_sigint: the interrupt may arrive wherever the batch is.
handle_sigint ==
    /\ pc \notin {"done", "raised", "api"}
    /\ should_stop' = TRUE
    /\ stop_at' = IF should_stop THEN stop_at
                  ELSE [set |-> TRUE, started |-> pos, in_row |-> pc \in RowPcs]
    /\ UNCHANGED <<tableVars, loopVars, pc, limiterVars, requestVars,
                   districts, errorVars, runVars, events, persists, lookups,
                   done_rows, pre, found, sleeps>>

\* process_csv, lines 130-138: read the table, compute the mask, build the
\* limiter.
ReadTable ==
    /\ pc = "start"
    /\ df' = read_csv(file)
    /\ table_read' = read_csv(file)
    /\ pending' = MaskIndex(read_csv(file))
    /\ pos' = 0
    /\ delay' = initial_delay
    /\ update_count' = 0
    /\ pc' = "loop"
    /\ UNCHANGED <<file, should_stop, requestVars, districts, errorVars, run,
                   earlier, rate_limited, events, persists, lookups, done_rows,
                   pre, stop_at, found, sleeps>>

\* The loop without its test of should_stop.
StartRow_ignores_flag ==
    /\ pc = "loop"
    /\ pos < Len(pending)
    /\ pos' = pos + 1
    /\ attempt' = 0
    /\ districts' = {}
    /\ outcome' = NoOutcome
    /\ result' = NoOutcome
    /\ events' = <<>>
    /\ pc' = "try"
    /\ sleeps' = <<>>
    /\ UNCHANGED <<tableVars, pending, should_stop, limiterVars, errorVars,
                   runVars, persists, lookups, done_rows, pre, stop_at, found>>

\* The limiter built inside the loop: every row gets a new one.
StartRow_new_limiter ==
    /\ pc = "loop"
    /\ pos < Len(pending)
    /\ ~should_stop
    /\ pos' = pos + 1
    /\ attempt' = 0
    /\ districts' = {}
    /\ outcome' = NoOutcome
    /\ result' = NoOutcome
    /\ events' = <<>>
    /\ delay' = initial_delay
    /\ update_count' = 0
    /\ pc' = "try"
    /\ sleeps' = <<>>
    /\ UNCHANGED <<tableVars, pending, should_stop, errorVars, runVars,
                   persists, lookups, done_rows, pre, stop_at, found>>

\* for idx in ...: if should_stop is clear the next pending row is started:
\* process_row, get_legislative_districts, the first turn of request's loop.
\* A row counts as started from the moment its test of the flag has passed.
StartRow ==
    /\ pc = "loop"
    /\ pos < Len(pending)
    /\ ~should_stop
    /\ pos' = pos + 1
    /\ attempt' = 0
    /\ districts' = {}
    /\ outcome' = NoOutcome
    /\ result' = NoOutcome
    /\ events' = <<>>
    /\ pc' = "try"
    /\ sleeps' = <<>>
    /\ UNCHANGED <<tableVars, pending, should_stop, limiterVars, errorVars,
                   runVars, persists, lookups, done_rows, pre, stop_at, found>>

\* if should_stop: break
Break ==
    /\ pc = "loop"
    /\ pos < Len(pending)
    /\ should_stop
    /\ pc' = "save"
    /\ UNCHANGED <<tableVars, loopVars, should_stop, limiterVars, requestVars,
                   districts, errorVars, runVars, events, persists, lookups,
                   done_rows, pre, stop_at, found, sleeps>>

\* The for loop is exhausted.
ExitLoop ==
    /\ pc = "loop"
    /\ pos = Len(pending)
    /\ pc' = "save"
    /\ UNCHANGED <<tableVars, loopVars, should_stop, limiterVars, requestVars,
                   districts, errorVars, runVars, events, persists, lookups,
                   done_rows, pre, stop_at, found, sleeps>>

\* request, line 71: a guarded invocation of make_request_fn.
Invoke(service) ==
    /\ pc = "try"
    /\ \E o \in service :
         /\ o.kind = "429" => rate_limited < MaxRateLimited
         /\ outcome' = o
         /\ events' = events \o <<"call", o.kind>>
         /\ rate_limited' = rate_limited + (IF o.kind = "429" THEN 1 ELSE 0)
    /\ lookups' = [lookups EXCEPT ![cur] = @ + 1]
    /\ pre' = [delay |-> delay, update_count |-> update_count]
    /\ pc' = "classify"
    /\ UNCHANGED <<tableVars, loopVars, should_stop, limiterVars, attempt,
                   result, districts, errorVars, run, earlier, table_read,
                   persists, done_rows, stop_at, found, sleeps>>

\* The success branch without its return: the for loop of request goes on.
OnSuccess_no_return ==
    /\ pc = "classify"
    /\ outcome.kind = "ok"
    /\ delay' = on_success(delay, update_count).delay
    /\ update_count' = on_success(delay, update_count).update_count
    /\ events' = Append(events, "on_success")
    /\ result' = outcome
    /\ attempt' = attempt + 1
    /\ pc' = IF attempt + 1 < max_attempts THEN "try" ELSE "final"
    /\ UNCHANGED <<tableVars, loopVars, should_stop, outcome, districts,
                   errorVars, runVars, persists, lookups, done_rows, pre,
                   stop_at, found, sleeps>>

\* request, lines 72-73: on_success, then return result.
OnSuccess ==
    /\ pc = "classify"
    /\ outcome.kind = "ok"
    /\ delay' = on_success(delay, update_count).delay
    /\ update_count' = on_success(delay, update_count).update_count
    /\ events' = Append(events, "on_success")
    /\ result' = outcome
    /\ pc' = "parse"
    /\ UNCHANGED <<tableVars, loopVars, should_stop, attempt, outcome,
                   districts, errorVars, runVars, persists, lookups, done_rows,
                   pre, stop_at, found, sleeps>>

\* request, lines 74-76, and on_rate_limit, lines 60-61: the update.
OnRateLimit ==
    /\ pc = "classify"
    /\ outcome.kind = "429"
    /\ delay' = on_rate_limit(delay, update_count).delay
    /\ update_count' = on_rate_limit(delay, update_count).update_count
    /\ events' = Append(events, "on_rate_limit")
    /\ pc' = "backoff"
    /\ UNCHANGED <<tableVars, loopVars, should_stop, requestVars, districts,
                   errorVars, runVars, persists, lookups, done_rows, pre,
                   stop_at, found, sleeps>>

\* The for loop of request with one turn too many (range(max_attempts + 1)).
Backoff_one_more_turn ==
    /\ pc = "backoff"
    /\ events' = Append(events, "sleep")
    /\ attempt' = attempt + 1
    /\ pc' = IF attempt + 1 < max_attempts + 1 THEN "try" ELSE "final"
    /\ sleeps' = Append(sleeps, delay)
    /\ UNCHANGED <<tableVars, loopVars, should_stop, limiterVars, outcome,
                   result, districts, errorVars, runVars, persists, lookups,
                   done_rows, pre, stop_at, found>>

\* on_rate_limit without its self.sleep(): the retry follows at once.
Backoff_no_sleep ==
    /\ pc = "backoff"
    /\ attempt' = attempt + 1
    /\ pc' = IF attempt + 1 < max_attempts THEN "try" ELSE "final"
    /\ UNCHANGED <<tableVars, loopVars, should_stop, limiterVars, outcome,
                   result, districts, errorVars, runVars, events, persists,
                   lookups, done_rows, pre, stop_at, found, sleeps>>

\* on_rate_limit sleeping before its update: the delay slept is the one the
\* rejected invocation found.
Backoff_stale_delay ==
    /\ pc = "backoff"
    /\ events' = Append(events, "sleep")
    /\ attempt' = attempt + 1
    /\ pc' = IF attempt + 1 < max_attempts THEN "try" ELSE "final"
    /\ sleeps' = Append(sleeps, pre.delay)
    /\ UNCHANGED <<tableVars, loopVars, should_stop, limiterVars, outcome,
                   result, districts, errorVars, runVars, persists, lookups,
                   done_rows, pre, stop_at, found>>

\* The for loop of request as a loop that never gives up: the attempt is
\* not counted.
Backoff_same_attempt ==
    /\ pc = "backoff"
    /\ events' = Append(events, "sleep")
    /\ pc' = "try"
    /\ sleeps' = Append(sleeps, delay)
    /\ UNCHANGED <<tableVars, loopVars, should_stop, limiterVars, requestVars,
                   districts, errorVars, runVars, persists, lookups,
                   done_rows, pre, stop_at, found>>

\* on_rate_limit, line 63: self.sleep(); then the next turn of the for loop
\* of request, or the invocation that follows the loop.
Backoff ==
    /\ pc = "backoff"
    /\ events' = Append(events, "sleep")
    /\ attempt' = attempt + 1
    /\ pc' = IF attempt + 1 < max_attempts THEN "try" ELSE "final"
    /\ sleeps' = Append(sleeps, delay)
    /\ UNCHANGED <<tableVars, loopVars, should_stop, limiterVars, outcome,
                   result, districts, errorVars, runVars, persists, lookups,
                   done_rows, pre, stop_at, found>>

\* The except clause without its test of the status code: every failure is
\* handled as a rate limit.
RaiseOther_as_rate_limit ==
    /\ pc = "classify"
    /\ outcome.kind \notin {"ok", "429"}
    /\ delay' = on_rate_limit(delay, update_count).delay
    /\ update_count' = on_rate_limit(delay, update_count).update_count
    /\ events' = Append(events, "on_rate_limit")
    /\ pc' = "backoff"
    /\ UNCHANGED <<tableVars, loopVars, should_stop, requestVars, districts,
                   errorVars, runVars, persists, lookups, done_rows, pre,
                   stop_at, found, sleeps>>

\* request, lines 77-78 (an HTTPError that is no 429 is raised again), and an
\* exception that is no HTTPError, which the except clause does not catch.
RaiseOther ==
    /\ pc = "classify"
    /\ outcome.kind \notin {"ok", "429"}
    /\ error' = outcome.kind
    /\ pc' = "except"
    /\ UNCHANGED <<tableVars, loopVars, should_stop, limiterVars, requestVars,
                   districts, propagated, runVars, events, persists, lookups,
                   done_rows, pre, stop_at, found, sleeps>>

\* The invocation after the loop classified as the guarded ones are: the
\* limiter is updated on its success and on its 429.
FinalCall_classified(service) ==
    /\ pc = "final"
    /\ \E o \in service :
         /\ o.kind = "429" => rate_limited < MaxRateLimited
         /\ outcome' = o
         /\ events' = events \o <<"call", o.kind>> \o
                         (IF o.kind = "ok" THEN <<"on_success">>
                          ELSE IF o.kind = "429" THEN <<"on_rate_limit">>
                          ELSE <<>>)
         /\ rate_limited' = rate_limited + (IF o.kind = "429" THEN 1 ELSE 0)
         /\ result' = IF o.kind = "ok" THEN o ELSE result
         /\ error' = IF o.kind = "ok" THEN error ELSE o.kind
         /\ pc' = IF o.kind = "ok" THEN "parse" ELSE "except"
         /\ delay' = IF o.kind = "ok"
                     THEN on_success(delay, update_count).delay
                     ELSE IF o.kind = "429"
                     THEN on_rate_limit(delay, update_count).delay
                     ELSE delay
         /\ update_count' = IF o.kind \in {"ok", "429"}
                            THEN update_count + 1 ELSE update_count
    /\ lookups' = [lookups EXCEPT ![cur] = @ + 1]
    /\ pre' = [delay |-> delay, update_count |-> update_count]
    /\ UNCHANGED <<tableVars, loopVars, should_stop, attempt, districts,
                   propagated, run, earlier, table_read, persists, done_rows,
                   stop_at, found, sleeps>>

\* request, line 79: return make_request_fn(params), outside the try.
FinalCall(service) ==
    /\ pc = "final"
    /\ \E o \in service :
         /\ o.kind = "429" => rate_limited < MaxRateLimited
         /\ outcome' = o
         /\ events' = events \o <<"call", o.kind>>
         /\ rate_limited' = rate_limited + (IF o.kind = "429" THEN 1 ELSE 0)
         /\ result' = IF o.kind = "ok" THEN o ELSE result
         /\ error' = IF o.kind = "ok" THEN error ELSE o.kind
         /\ pc' = IF o.kind = "ok" THEN "parse" ELSE "except"
    /\ lookups' = [lookups EXCEPT ![cur] = @ + 1]
    /\ pre' = [delay |-> delay, update_count |-> update_count]
    /\ UNCHANGED <<tableVars, loopVars, should_stop, limiterVars, attempt,
                   districts, propagated, run, earlier, table_read, persists,
                   done_rows, stop_at, found, sleeps>>

\* get_legislative_districts, lines 162-173: the RowItem, or the exception of
\* extract_district_and_rep on a division it cannot read.
Parse ==
    /\ pc = "parse"
    /\ IF result.wellformed
       THEN /\ districts' = {m \in Markers : m \in result.divisions}
            /\ pc' = "write_sh"
            /\ UNCHANGED error
       ELSE /\ error' = "parse_error"
            /\ pc' = "except"
            /\ UNCHANGED districts
    /\ UNCHANGED <<tableVars, loopVars, should_stop, limiterVars, requestVars,
                   propagated, runVars, events, persists, lookups, done_rows,
                   pre, stop_at, found, sleeps>>

\* The two df.at assignments of one jurisdiction.
WriteCells(d, i, m, r) ==
    [d EXCEPT ![i] = [@ EXCEPT ![DistrictColumn(m)] = Derived(r),
                               ![RepColumn(m)] = Derived(r)]]

\* process_row saving the table after its first pair of cells.
WriteStateHouse_checkpoint ==
    /\ pc = "write_sh"
    /\ df' = IF STATE_HOUSE_ID \in districts
             THEN WriteCells(df, cur, STATE_HOUSE_ID, run) ELSE df
    /\ file' = to_csv(df')
    /\ persists' = persists + 1
    /\ pc' = "write_ss"
    /\ UNCHANGED <<loopVars, should_stop, limiterVars, requestVars,
                   districts, errorVars, runVars, events, lookups,
                   done_rows, pre, stop_at, found, sleeps>>

\* process_row, lines 118-120.
WriteStateHouse ==
    /\ pc = "write_sh"
    /\ df' = IF STATE_HOUSE_ID \in districts
             THEN WriteCells(df, cur, STATE_HOUSE_ID, run) ELSE df
    /\ pc' = "write_ss"
    /\ UNCHANGED <<file, loopVars, should_stop, limiterVars, requestVars,
                   districts, errorVars, runVars, events, persists, lookups,
                   done_rows, pre, stop_at, found, sleeps>>

\* process_row with the test of line 121 copied from line 118: the state
\* senate cells are written when the state house is present.
WriteStateSenate_wrong_guard ==
    /\ pc = "write_ss"
    /\ df' = IF STATE_HOUSE_ID \in districts
             THEN WriteCells(df, cur, STATE_SENATE_ID, run) ELSE df
    /\ pc' = "write_us"
    /\ UNCHANGED <<file, loopVars, should_stop, limiterVars, requestVars,
                   districts, errorVars, runVars, events, persists, lookups,
                   done_rows, pre, stop_at, found, sleeps>>

\* process_row, lines 121-123.
WriteStateSenate ==
    /\ pc = "write_ss"
    /\ df' = IF STATE_SENATE_ID \in districts
             THEN WriteCells(df, cur, STATE_SENATE_ID, run) ELSE df
    /\ pc' = "write_us"
    /\ UNCHANGED <<file, loopVars, should_stop, limiterVars, requestVars,
                   districts, errorVars, runVars, events, persists, lookups,
                   done_rows, pre, stop_at, found, sleeps>>

\* process_row, lines 124-126, and its return.
WriteUSHouse ==
    /\ pc = "write_us"
    /\ df' = IF US_HOUSE_ID \in districts
             THEN WriteCells(df, cur, US_HOUSE_ID, run) ELSE df
    /\ done_rows' = done_rows \cup {cur}
    /\ found' = [found EXCEPT ![cur] = districts]
    /\ pc' = "sleep"
    /\ UNCHANGED <<file, loopVars, should_stop, limiterVars, requestVars,
                   districts, errorVars, runVars, events, persists, lookups,
                   pre, stop_at, sleeps>>

\* The table written after every row as well.
RowSleep_checkpoint ==
    /\ pc = "sleep"
    /\ events' = Append(events, "sleep")
    /\ file' = to_csv(df)
    /\ persists' = persists + 1
    /\ pc' = "loop"
    /\ sleeps' = Append(sleeps, delay)
    /\ UNCHANGED <<df, loopVars, should_stop, limiterVars, requestVars,
                   districts, errorVars, runVars, lookups, done_rows, pre,
                   stop_at, found>>

\* process_csv without line 145: the next row follows at once.
RowSleep_skipped ==
    /\ pc = "sleep"
    /\ pc' = "loop"
    /\ UNCHANGED <<tableVars, loopVars, should_stop, limiterVars, requestVars,
                   districts, errorVars, runVars, events, persists, lookups,
                   done_rows, pre, stop_at, found, sleeps>>

\* process_csv, line 145: rate_limiter.sleep() after the row.
RowSleep ==
    /\ pc = "sleep"
    /\ events' = Append(events, "sleep")
    /\ pc' = "loop"
    /\ sleeps' = Append(sleeps, delay)
    /\ UNCHANGED <<tableVars, loopVars, should_stop, limiterVars, requestVars,
                   districts, errorVars, runVars, persists, lookups, done_rows,
                   pre, stop_at, found>>

\* The except clause without its to_csv.
SaveOnError_no_save ==
    /\ pc = "except"
    /\ pc' = "reraise"
    /\ UNCHANGED <<tableVars, loopVars, should_stop, limiterVars, requestVars,
                   districts, errorVars, runVars, events, persists, lookups,
                   done_rows, pre, stop_at, found, sleeps>>

\* process_csv, lines 146-147: except Exception as e: df.to_csv(...).
SaveOnError ==
    /\ pc = "except"
    /\ file' = to_csv(df)
    /\ persists' = persists + 1
    /\ pc' = "reraise"
    /\ UNCHANGED <<df, loopVars, should_stop, limiterVars, requestVars,
                   districts, errorVars, runVars, events, lookups, done_rows,
                   pre, stop_at, found, sleeps>>

\* process_csv, line 148: raise e.
Reraise ==
    /\ pc = "reraise"
    /\ propagated' = error
    /\ pc' = "raised"
    /\ UNCHANGED <<tableVars, loopVars, should_stop, limiterVars, requestVars,
                   districts, error, runVars, events, persists, lookups,
                   done_rows, pre, stop_at, found, sleeps>>

\* process_csv, line 151: df.to_csv(...) after the loop.
Save ==
    /\ pc = "save"
    /\ file' = to_csv(df)
    /\ persists' = persists + 1
    /\ pc' = "done"
    /\ UNCHANGED <<df, loopVars, should_stop, limiterVars, requestVars,
                   districts, errorVars, runVars, events, lookups, done_rows,
                   pre, stop_at, found, sleeps>>

\* One batch run: process_csv called once by the process.
Next ==
    \/ handle_sigint
    \/ ReadTable
    \/ StartRow
    \/ Break
    \/ ExitLoop
    \/ Invoke(Service)
    \/ OnSuccess
    \/ OnRateLimit
    \/ Backoff
    \/ RaiseOther
    \/ FinalCall(Service)
    \/ Parse
    \/ WriteStateHouse
    \/ WriteStateSenate
    \/ WriteUSHouse
    \/ RowSleep
    \/ SaveOnError
    \/ Reraise
    \/ Save

Spec == Init /\ [][Next]_vars

\* ------------------------------------------------------- the batch, again
\* The program is started again on the file the run before left: a new
\* process, whose should_stop is False (line 24) and whose process_csv reads
\* the file and builds a new limiter.
NewProcess ==
    /\ pc \in {"done", "raised"}
    /\ run < MaxRuns
    /\ run' = run + 1
    /\ earlier' = [ended |-> IF pc = "raised" THEN "raised"
                             ELSE IF pos < Len(pending) THEN "stopped"
                             ELSE "completed",
                   done |-> earlier.done \cup done_rows]
    /\ should_stop' = FALSE
    /\ pc' = "start"
    /\ df' = <<>>
    /\ pending' = <<>>
    /\ pos' = 0
    /\ delay' = initial_delay
    /\ update_count' = 0
    /\ attempt' = 0
    /\ outcome' = NoOutcome
    /\ result' = NoOutcome
    /\ districts' = {}
    /\ error' = "none"
    /\ propagated' = "none"
    /\ events' = <<>>
    /\ persists' = 0
    /\ lookups' = [i \in 1..Len(file) |-> 0]
    /\ done_rows' = {}
    /\ pre' = [delay |-> initial_delay, update_count |-> 0]
    /\ stop_at' = NoStop
    /\ found' = [i \in 1..Len(file) |-> {}]
    /\ sleeps' = <<>>
    /\ table_read' = <<>>
    /\ rate_limited' = 0
    /\ UNCHANGED file

InitResume == InitWith(Tables(ResumeRows), "start")
NextResume == Next \/ NewProcess
SpecResume == InitResume /\ [][NextResume]_vars

\* --------------------------------------------- the limiter, driven directly
\* An AdaptiveRateLimiter() whose on_success, on_rate_limit and sleep are
\* called in any order; events holds the last call only, sleeps the delays
\* slept by the last on_rate_limit() calls made in a row (two at most).
InitLimiter == InitWith({<<>>}, "api")

batchVars == <<tableVars, loopVars, pc, should_stop, requestVars, districts,
               errorVars, runVars, persists, lookups, done_rows, stop_at,
               found>>

\* on_success()
ApiOnSuccess ==
    /\ pc = "api"
    /\ update_count < MaxUpdates
    /\ pre' = [delay |-> delay, update_count |-> update_count]
    /\ delay' = on_success(delay, update_count).delay
    /\ update_count' = on_success(delay, update_count).update_count
    /\ events' = <<"on_success">>
    /\ sleeps' = <<>>
    /\ UNCHANGED batchVars

\* on_rate_limit(): the update, then self.sleep()
ApiOnRateLimit ==
    /\ pc = "api"
    /\ update_count < MaxUpdates
    /\ pre' = [delay |-> delay, update_count |-> update_count]
    /\ delay' = on_rate_limit(delay, update_count).delay
    /\ update_count' = on_rate_limit(delay, update_count).update_count
    /\ events' = <<"on_rate_limit", "sleep">>
    /\ sleeps' = IF events = <<"on_rate_limit", "sleep">>
                 THEN <<sleeps[Len(sleeps)], delay'>>
                 ELSE <<delay'>>
    /\ UNCHANGED batchVars

\* sleep()
ApiSleep ==
    /\ pc = "api"
    /\ pre' = [delay |-> delay, update_count |-> update_count]
    /\ events' = <<"sleep">>
    /\ sleeps' = <<delay>>
    /\ UNCHANGED <<batchVars, limiterVars>>

NextLimiter == ApiOnSuccess \/ ApiOnRateLimit \/ ApiSleep
SpecLimiter == InitLimiter /\ [][NextLimiter]_vars

\* --------------------------------------------- one row, every response
\* A batch run over a table of one pending row, some of whose other cells
\* may hold text already, with a service that may answer with every subset
\* of the three divisions.
PendingRows ==
    {r \in [Columns -> {EmptyText, OldText}] :
        r[state_house_rep_column] = EmptyText}

InitRow == InitWith({<<r>> : r \in PendingRows}, "start")

NextRow ==
    \/ handle_sigint
    \/ ReadTable
    \/ StartRow
    \/ Break
    \/ ExitLoop
    \/ Invoke(AllResponses \cup Failures)
    \/ OnSuccess
    \/ OnRateLimit
    \/ Backoff
    \/ RaiseOther
    \/ FinalCall(AllResponses \cup Failures)
    \/ Parse
    \/ WriteStateHouse
    \/ WriteStateSenate
    \/ WriteUSHouse
    \/ RowSleep
    \/ SaveOnError
    \/ Reraise
    \/ Save

SpecRow == InitRow /\ [][NextRow]_vars

\* ------------------------------------------------ a batch run that goes on
\* The steps of the program itself: every step but the arrival of SIGINT.
\* The program is sequential, and every invocation and every sleep is taken
\* to return, so a step that can be taken is taken; SIGINT may arrive at any
\* time, or never.
BatchStep ==
    \/ ReadTable
    \/ StartRow
    \/ Break
    \/ ExitLoop
    \/ Invoke(Service)
    \/ OnSuccess
    \/ OnRateLimit
    \/ Backoff
    \/ RaiseOther
    \/ FinalCall(Service)
    \/ Parse
    \/ WriteStateHouse
    \/ WriteStateSenate
    \/ WriteUSHouse
    \/ RowSleep
    \/ SaveOnError
    \/ Reraise
    \/ Save

FairSpec == Init /\ [][Next]_vars /\ WF_vars(BatchStep)

\* ================================================================ claims

\* C1: for a limiter built with the defaults, after every sequence of
\* on_success() and on_rate_limit() calls, in any order, the delay is within
\* [min_delay, max_delay].
C1_DelayWithinBounds == min_delay <= delay /\ delay <= max_delay

\* The clamp has acted: a run of on_rate_limit() calls has driven the delay to
\* max_delay.
C1_Witness ==
    /\ pc = "api"
    /\ events = <<"on_rate_limit", "sleep">>
    /\ pre.delay < max_delay
    /\ delay = max_delay

\* ------------------------------------------------------------- request()
\* What the invocations of the current row's request() produced, in order.
Answers ==
    SelectSeq(events, LAMBDA e : e \in {"ok", "429", "http_error", "connection_error"})
Calls == Count(events, "call")
Rejections == Count(events, "429")
\* request() is over for the current row: it returned or raised.
RequestOver == events # <<>> /\ pc \notin RequestPcs

\* C2: when make_request fails with a 429 on its first k < max_attempts
\* invocations and then succeeds, request() returns that result, after exactly
\* k + 1 invocations, exactly one on_success and exactly k on_rate_limit.
C2_RetryThenSuccess ==
    (Count(events, "ok") = 1 /\ Rejections < max_attempts /\ pc # "classify")
    => /\ RequestOver
       /\ result = outcome
       /\ result.kind = "ok"
       /\ Calls = Rejections + 1
       /\ Count(events, "on_success") = 1
       /\ Count(events, "on_rate_limit") = Rejections

\* request() has returned the success that followed max_attempts - 1 rejections.
C2_Witness ==
    /\ pc = "parse"
    /\ Rejections = max_attempts - 1
    /\ Count(events, "ok") = 1
    /\ result.kind = "ok"

\* The max_attempts guarded invocations were all answered by a 429.
GuardedAllRateLimited ==
    /\ Len(Answers) >= max_attempts
    /\ \A i \in 1..max_attempts : Answers[i] = "429"

\* C3: when all max_attempts guarded attempts are rate limited, on_rate_limit
\* is called exactly max_attempts times and make_request is then invoked
\* exactly once more, max_attempts + 1 invocations in all and never more.
C3_FinalUnguardedCall ==
    /\ Calls <= max_attempts + 1
    /\ (GuardedAllRateLimited /\ pc \notin {"classify", "backoff"})
       => /\ Count(events, "on_rate_limit") = max_attempts
          /\ Count(events, "on_success") = 0
          /\ IF pc = "final"
             THEN Calls = max_attempts
             ELSE RequestOver /\ Calls = max_attempts + 1

\* The invocation after the loop has been made, and was rejected as well.
C3_Witness ==
    /\ GuardedAllRateLimited
    /\ RequestOver
    /\ Calls = max_attempts + 1
    /\ Rejections = max_attempts + 1
    /\ pc = "raised"

\* C4: when a guarded attempt fails with an error that is no 429, request()
\* raises it at once: nothing is invoked after it, and delay and update_count
\* are what they were just before that attempt.
C4_OtherErrorPropagates ==
    (outcome.kind \in {"http_error", "connection_error"}
        /\ attempt < max_attempts /\ pc # "classify")
    => /\ pc \in {"except", "reraise", "raised"}
       /\ error = outcome.kind
       /\ events[Len(events)] = outcome.kind
       /\ delay = pre.delay
       /\ update_count = pre.update_count
       /\ Count(events, "on_success") = 0
       /\ Count(events, "on_rate_limit") = attempt

\* An attempt reached after two rejections failed with an HTTP error that is
\* no 429, and the error has left process_csv.
C4_Witness ==
    /\ pc = "raised"
    /\ outcome.kind = "http_error"
    /\ attempt = 2
    /\ propagated = "http_error"
    /\ update_count = 2

\* ------------------------------------------------------------ process_csv
\* The rows of df[mask].index that the loop has started, and the others.
Started == {pending[j] : j \in 1..pos}
NotStarted == {pending[j] : j \in (pos + 1)..Len(pending)}
\* The file holds, for row i, every cell the lookup of this run derived.
HoldsDerived(i) ==
    \A m \in found[i] :
        /\ file[i][DistrictColumn(m)] = Derived(run)
        /\ file[i][RepColumn(m)] = Derived(run)

\* C5: when the processing of a row raises, the whole table is written
\* exactly once before the error leaves process_csv, the file holds the
\* derived cells of every row completed before, no later row is processed,
\* and the same error is propagated.
C5_PersistOnError ==
    /\ pc = "except" => persists = 0 /\ error # "none"
    /\ pc \in {"reraise", "raised"}
       => /\ persists = 1
          /\ file = to_csv(df)
          /\ Len(file) = Len(table_read)
          /\ \A i \in done_rows : HoldsDerived(i)
          /\ done_rows = Started \ {cur}
          /\ \A i \in NotStarted : lookups[i] = 0 /\ df[i] = table_read[i]
          /\ error # "none"
    /\ pc = "raised" => propagated = error
    /\ pc # "raised" => propagated = "none"

\* The second of three pending rows raised after the first was completed with
\* all three jurisdictions; the error has left process_csv.
C5_Witness ==
    /\ pc = "raised"
    /\ Len(pending) = 3
    /\ pos = 2
    /\ done_rows = {pending[1]}
    /\ found[pending[1]] = Markers
    /\ propagated = "parse_error"

\* C6: wherever the interrupt sets the flag, the flag stays set, no row is
\* started after it, the row in progress (if any) is run to its end, and the
\* table is then written; with the flag set after the first of three pending
\* rows is complete, one row is processed and the two others keep an empty
\* sentinel.
C6_CooperativeStop ==
    /\ stop_at.set => should_stop
    /\ should_stop
       => /\ stop_at.set
          /\ pos = stop_at.started
          /\ stop_at.in_row => stop_at.started > 0
          /\ pc \in {"sleep", "loop", "save", "done"} => done_rows = Started
          /\ pc = "done"
             => /\ persists = 1
                /\ file = to_csv(df)
                /\ Cardinality(done_rows) = stop_at.started
                /\ \A i \in NotStarted :
                     /\ lookups[i] = 0
                     /\ file[i][state_house_rep_column] = EmptyText

\* Three rows were pending, the interrupt came while the batch slept after
\* the first; the run is over with one row processed.
C6_Witness ==
    /\ pc = "done"
    /\ Len(pending) = 3
    /\ stop_at = [set |-> TRUE, started |-> 1, in_row |-> FALSE]
    /\ done_rows = {pending[1]}
    /\ file[pending[2]][state_house_rep_column] = EmptyText
    /\ file[pending[3]][state_house_rep_column] = EmptyText

\* C7: a row whose sentinel is filled at batch start is never looked up and
\* none of its cells changes; lookups go to rows whose sentinel was empty
\* only; the table written has as many rows as the table read.
C7_DoneRowsUntouched ==
    pc # "start"
    => /\ Len(df) = Len(table_read)
       /\ Len(file) = Len(table_read)
       /\ \A i \in 1..Len(table_read) :
            /\ ~isna(table_read[i][state_house_rep_column])
               => /\ lookups[i] = 0
                  /\ df[i] = table_read[i]
                  /\ file[i] = to_csv(table_read)[i]
            /\ lookups[i] > 0 => isna(table_read[i][state_house_rep_column])

\* Three rows, two of them done and one pending: the run is over after one
\* lookup, whose cells are in the file.
C7_Witness ==
    /\ pc = "done"
    /\ Len(file) = 3
    /\ Len(pending) = 1
    /\ lookups[pending[1]] = 1
    /\ found[pending[1]] = Markers
    /\ HoldsDerived(pending[1])
    /\ \A i \in 1..3 : i # pending[1] => file[i] = DoneRow

\* C8: a row whose processing completed without error in one run is pending
\* in no later run: a run after a run that completed issues no lookup, a run
\* after an interrupted run looks up only rows that run did not process.
C8_ResumeIdempotent ==
    pc # "start"
    => /\ \A j \in 1..Len(pending) : pending[j] \notin earlier.done
       /\ earlier.ended = "completed" => \A i \in 1..Len(file) : lookups[i] = 0
       /\ earlier.ended = "stopped"
          => \A i \in 1..Len(file) : lookups[i] > 0 => i \notin earlier.done

\* C9: a run that ends by completion or by cooperative stop writes the table
\* exactly once, as its last action, after the last processed row and its
\* sleep; the table is never written while rows are being processed.
C9_PersistOnceAtEnd ==
    error = "none"
    => /\ persists = (IF pc = "done" THEN 1 ELSE 0)
       /\ pc = "done" => file = to_csv(df)
       /\ pc # "done" /\ pc # "start" => file = to_csv(table_read)
       /\ pc \in {"save", "done"}
          => /\ done_rows = Started
             /\ pos > 0 => events[Len(events)] = "sleep"

\* A cooperative stop: the run is over, written once, with one of three
\* pending rows processed.
C9_Witness ==
    /\ pc = "done"
    /\ error = "none"
    /\ should_stop
    /\ Len(pending) = 3
    /\ pos = 1
    /\ persists = 1
    /\ file # to_csv(table_read)

\* C10: update_count starts at 0, grows by exactly 1 with each on_success or
\* on_rate_limit, and nothing else changes it: not sleep(), not an attempt
\* that fails with another error, not the start of the next row.
C10_UpdateCount ==
    /\ update_count = 0
    /\ [][IF OnSuccess \/ OnRateLimit
          THEN update_count' = update_count + 1
          ELSE update_count' = update_count]_vars

\* The second row starts with the count the first row left: a rejection and
\* a success.
C10_Witness ==
    /\ pc = "try"
    /\ pos = 2
    /\ events = <<>>
    /\ update_count = 2

\* The invocation that follows the loop of request has been made for the
\* current row.
FinalMade == events # <<>> /\ attempt = max_attempts /\ pc # "final"

\* C11: the invocation made after max_attempts rate-limited attempts is not
\* classified.  Its answer is returned when it is a response and raised
\* unchanged when it is a 429 or another error; delay and update_count stay
\* as the last guarded attempt left them; no on_success, no on_rate_limit
\* and no sleep follows it inside request (the one sleep that may follow is
\* the sleep of process_csv after the row).
C11_FinalCallUnclassified ==
    FinalMade =>
        /\ Calls = max_attempts + 1
        /\ events[4 * max_attempts + 1] = "call"
        /\ events[4 * max_attempts + 2] = outcome.kind
        /\ delay = pre.delay
        /\ update_count = pre.update_count
        /\ Count(events, "on_success") = 0
        /\ Count(events, "on_rate_limit") = max_attempts
        /\ Len(events) = 4 * max_attempts + 2 +
                             (IF pc \in {"loop", "save", "done"} THEN 1 ELSE 0)
        /\ pc \in {"loop", "save", "done"} => events[Len(events)] = "sleep"
        /\ outcome.kind = "ok" =>
               result = outcome /\ error \in {"none", "parse_error"}
        /\ outcome.kind # "ok" =>
               /\ error = outcome.kind
               /\ pc \in {"except", "reraise", "raised"}
               /\ pc = "raised" => propagated = outcome.kind

C11_Witness ==
    /\ FinalMade
    /\ pc = "raised"
    /\ propagated = "429"
    /\ update_count = max_attempts
    /\ Len(sleeps) = max_attempts

\* The last call on the limiter was an update, on_success or on_rate_limit.
Updated ==
    pc = "api" /\ events # <<>> /\ events[1] \in {"on_success", "on_rate_limit"}

\* The target of that update, from the delay it found.
Target ==
    IF events[1] = "on_success" THEN (pre.delay * 9) \div 10 ELSE pre.delay * 2

\* alpha * target + (1 - alpha) * d for alpha = initial_alpha / den, clamped.
ClampedBlend(d, target, den) ==
    Max(min_delay,
        Min(max_delay, (initial_alpha * target + (den - initial_alpha) * d) \div den))

\* C12 as stated: every update blends with alpha = initial_alpha / (1 + n),
\* n the number of updates made before the call, and increments the count
\* after the blend, so that the first update uses alpha = 2.
C12_AlphaFromCountBefore ==
    Updated =>
        /\ delay = ClampedBlend(pre.delay, Target, 1 + pre.update_count)
        /\ update_count = pre.update_count + 1

\* C12, amended: every update increments the count first and blends with
\* alpha = initial_alpha / (1 + n), n the incremented count (the updates made
\* before the call, plus one); the first update from the default state uses
\* alpha = 1 and leaves delay = clamp(target).
C12_AlphaFromCountAfter ==
    Updated =>
        /\ delay = ClampedBlend(pre.delay, Target, 2 + pre.update_count)
        /\ update_count = pre.update_count + 1
        /\ pre.update_count = 0 =>
               delay = Max(min_delay, Min(max_delay, Target))

\* The first update is an on_rate_limit: the delay becomes its target, twice
\* the initial delay.
C12_Witness ==
    /\ Updated
    /\ events[1] = "on_rate_limit"
    /\ pre.update_count = 0
    /\ update_count = 1
    /\ delay = 2 * initial_delay

\* C13: an on_success() call never increases the delay, and strictly
\* decreases it when it was above min_delay.  It holds after every
\* on_success() of every reachable limiter state, the sequences made only of
\* on_success() calls from the default state among them.
C13_SuccessDecreases ==
    (Updated /\ events[1] = "on_success") =>
        /\ delay <= pre.delay
        /\ pre.delay > min_delay => delay < pre.delay

\* Three on_success() calls from the default state and nothing else: the
\* delay has gone down at each of them.
C13_Witness ==
    LET s1 == on_success(initial_delay, 0)
        s2 == on_success(s1.delay, s1.update_count)
        s3 == on_success(s2.delay, s2.update_count)
    IN  /\ Updated
        /\ events[1] = "on_success"
        /\ update_count = 3
        /\ pre.delay = s2.delay
        /\ delay = s3.delay
        /\ s3.delay < s2.delay /\ s2.delay < s1.delay /\ s1.delay < initial_delay

\* C14: an on_rate_limit() call never decreases the delay, and strictly
\* increases it when it was below max_delay; of two on_rate_limit() calls
\* made in a row, as the consecutive rate-limited attempts of one request
\* make them, the second sleeps at least as long as the first.
C14_RateLimitIncreases ==
    (Updated /\ events[1] = "on_rate_limit") =>
        /\ delay >= pre.delay
        /\ pre.delay < max_delay => delay > pre.delay
        /\ sleeps[Len(sleeps)] = delay
        /\ Len(sleeps) = 2 => sleeps[1] = pre.delay /\ sleeps[1] <= sleeps[2]

\* Two on_rate_limit() calls in a row, the second at the upper clamp: its
\* sleep is not shorter than the one before.
C14_Witness ==
    /\ Updated
    /\ events[1] = "on_rate_limit"
    /\ Len(sleeps) = 2
    /\ sleeps[1] < sleeps[2]
    /\ delay = max_delay

\* The positions in events of the answers to the guarded invocations that
\* were 429s: every 429 but the one the invocation after the loop may get.
GuardedRejections ==
    {i \in 1..Len(events) :
        events[i] = "429" /\ ~(FinalMade /\ i = Len(events))}

\* C15: inside request every rate-limited guarded attempt is followed by the
\* update of delay and update_count, then by one sleep, of the delay just
\* updated, then by the next invocation, the one after the loop included.
\* Nothing else comes between, and the update has taken place once the sleep
\* is reached.
C15_RetryOrder ==
    /\ \A i \in GuardedRejections :
          /\ events[i - 1] = "call"
          /\ i + 1 <= Len(events) => events[i + 1] = "on_rate_limit"
          /\ i + 2 <= Len(events) => events[i + 2] = "sleep"
          /\ i + 3 <= Len(events) => events[i + 3] = "call"
          /\ i = Len(events) => pc = "classify"
          /\ i + 1 = Len(events) => pc = "backoff"
          /\ i + 2 = Len(events) => pc \in {"try", "final"}
    /\ pc \in RequestPcs =>
          /\ Len(sleeps) = Count(events, "sleep")
          /\ Len(sleeps) = Count(events, "on_rate_limit")
                              - (IF pc = "backoff" THEN 1 ELSE 0)
    /\ (pc \in {"try", "final"} /\ attempt > 0) =>
          /\ Len(sleeps) = attempt
          /\ sleeps[attempt] = delay
          /\ sleeps[attempt] = on_rate_limit(pre.delay, pre.update_count).delay
          /\ update_count = pre.update_count + 1
    /\ pc = "final" <=> (pc \in RequestPcs /\ Len(sleeps) = max_attempts)

\* The last guarded attempt was rate limited: its update and its sleep have
\* taken place and the invocation after the loop is next.
C15_Witness ==
    /\ pc = "final"
    /\ Len(sleeps) = max_attempts
    /\ sleeps[max_attempts] = delay
    /\ sleeps[max_attempts] > pre.delay
    /\ events[Len(events)] = "sleep"

\* The loop of process_csv is between two rows, or past the last one: the
\* stop flag is tested next, or the table saved.
BetweenRows == pc \in {"loop", "save", "done"} /\ pos > 0

\* C16: a batch run takes the pending rows in the order of the table and
\* each of them once at most; after each completed row it sleeps once, for
\* the current delay, before the stop flag is tested for the next row, and
\* so too after the last row.
C16_RowOrderAndSleep ==
    /\ [](/\ \A j \in 1..(Len(pending) - 1) : pending[j] < pending[j + 1]
          /\ done_rows \subseteq Started
          /\ pc = "sleep" =>
                /\ done_rows = Started
                /\ Len(sleeps) = Count(events, "on_rate_limit")
                /\ events[Len(events)] # "sleep"
          /\ BetweenRows =>
                /\ done_rows = Started
                /\ events[Len(events)] = "sleep"
                /\ Len(sleeps) = Count(events, "on_rate_limit") + 1
                /\ sleeps[Len(sleeps)] = delay)
    /\ [][pos' # pos =>
             /\ pc = "loop"
             /\ pos' = pos + 1
             /\ pending' = pending
             /\ lookups[pending[pos']] = 0
             /\ pending[pos'] \notin done_rows]_vars

\* All rows of a table of two rows or more have been processed, one of them
\* with a retry, and the sleep after the last row has taken place.
C16_Witness ==
    /\ pc = "done"
    /\ ~should_stop
    /\ pos = Len(pending)
    /\ pos >= 2
    /\ done_rows = Started
    /\ Len(sleeps) = 2
    /\ sleeps[2] = delay

\* process_row has returned for the current row.
RowWritten == pc \in {"sleep", "loop", "save", "done"} /\ pos > 0

\* C17: for every subset of the three markers that a response holds,
\* process_row writes the district cell and the representative cell of each
\* jurisdiction present and leaves the two cells of each absent jurisdiction
\* as they were read; the table saved afterwards holds just that.
C17_WritesPresentOnly ==
    RowWritten =>
        /\ \A m \in Markers :
              IF m \in result.divisions
              THEN /\ df[cur][DistrictColumn(m)] = Derived(run)
                   /\ df[cur][RepColumn(m)] = Derived(run)
              ELSE /\ df[cur][DistrictColumn(m)] = table_read[cur][DistrictColumn(m)]
                   /\ df[cur][RepColumn(m)] = table_read[cur][RepColumn(m)]
        /\ pc = "done" => file = to_csv(df)

\* A response with a national house division only, for a row with no cell
\* filled: the two US House cells are filled, the four state cells are blank.
C17_Witness ==
    /\ pc = "done"
    /\ pos = 1
    /\ result.divisions = {US_HOUSE_ID}
    /\ \A c \in Columns : isna(table_read[cur][c])
    /\ file[cur]["US House District"] = Derived(run)
    /\ file[cur]["US House Rep."] = Derived(run)
    /\ \A m \in {STATE_HOUSE_ID, STATE_SENATE_ID} :
          /\ file[cur][DistrictColumn(m)] = EmptyText
          /\ file[cur][RepColumn(m)] = EmptyText

\* Row i of the saved file is as the run read it.
AsRead(i) == file[i] = to_csv(table_read)[i]

\* Row i of the saved file holds everything its completed lookup gave: the
\* cells of the markers found are written, the others are as read.
FullyWritten(i) ==
    /\ i \in done_rows
    /\ \A m \in Markers :
          IF m \in found[i]
          THEN /\ file[i][DistrictColumn(m)] = Derived(run)
               /\ file[i][RepColumn(m)] = Derived(run)
          ELSE /\ file[i][DistrictColumn(m)] = to_csv(table_read)[i][DistrictColumn(m)]
               /\ file[i][RepColumn(m)] = to_csv(table_read)[i][RepColumn(m)]

\* C18: the table is never saved with a row half written.  Once the run has
\* saved it, every row of the file is either fully written from its
\* completed lookup or as the run read it, and the row whose processing
\* raised has its six output cells as read.
C18_NoHalfWrittenRow ==
    persists > 0 =>
        /\ \A i \in 1..Len(file) : FullyWritten(i) \/ AsRead(i)
        /\ pc \in {"reraise", "raised"} => cur \notin done_rows /\ AsRead(cur)

\* The first row was written in full, the response of the second cannot be
\* read: the table saved holds the first row's six cells and the second row
\* as it was.
C18_Witness ==
    /\ pc = "raised"
    /\ persists = 1
    /\ pos = 2
    /\ error = "parse_error"
    /\ found[pending[1]] = Markers
    /\ FullyWritten(pending[1])
    /\ ~AsRead(pending[1])
    /\ AsRead(cur)

\* C19: within a batch run no two invocations of the lookup follow each
\* other without a sleep of the limiter's delay, min_delay at least, between
\* them: not the two of a retry inside one request, and not the last of one
\* row and the first of the next.
C19_SleepBetweenCalls ==
    /\ [](/\ \A i \in 1..Len(sleeps) : sleeps[i] >= min_delay
          /\ Len(sleeps) = Count(events, "sleep")
          /\ \A i, j \in 1..Len(events) :
                (i < j /\ events[i] = "call" /\ events[j] = "call") =>
                    \E k \in (i + 1)..(j - 1) : events[k] = "sleep")
    /\ [][(pos' # pos /\ pos > 0) =>
             /\ events[Len(events)] = "sleep"
             /\ sleeps[Len(sleeps)] = delay
             /\ events' = <<>>]_vars
    /\ [][(pc \in {"try", "final"} /\ pc' # pc /\ events # <<>>) =>
             events[Len(events)] = "sleep"]_vars

\* The second row's lookup has been invoked twice: a sleep came before the
\* first invocation, after the first row, and one between the two.
C19_Witness ==
    /\ pos = 2
    /\ pc = "classify"
    /\ Calls = 2
    /\ events[4] = "sleep"
    /\ Len(sleeps) = 1
    /\ lookups[pending[1]] > 0

\* The run is over: process_csv has returned, or raised.
Terminated == pc \in {"done", "raised"}

\* Row i has been handed to process_row and its request has invoked the
\* lookup, or is over.
Processed(i) ==
    i \in Started /\ ~(i = cur /\ pc = "try" /\ events = <<>>)

\* C20: when every invocation of the lookup and every sleep returns, a batch
\* run over a finite table terminates with the table saved, whatever the
\* lookups answer and whenever SIGINT arrives; each processed row costs one
\* invocation of the lookup at least and max_attempts + 1 at most, the other
\* rows none.
C20_Terminates ==
    /\ <>(Terminated /\ persists = 1 /\ file = to_csv(df))
    /\ [](\A i \in 1..Len(file) :
             IF Processed(i)
             THEN 1 <= lookups[i] /\ lookups[i] <= max_attempts + 1
             ELSE lookups[i] = 0)

\* A run that SIGINT stopped after its first row, which took all the
\* invocations a row can take: it is over, and the table is saved.
C20_Witness ==
    /\ Terminated
    /\ should_stop
    /\ persists = 1
    /\ file = to_csv(df)
    /\ pos = 1
    /\ Len(pending) > 1
    /\ lookups[pending[1]] = max_attempts + 1
    /\ lookups[pending[2]] = 0

====
